---- MODULE Spec2Model ----
(***************************************************************************)
(* A model of src/capm.py: the batch script that reads firm/date rows from *)
(* firms_dates.csv, fetches three daily price series per row (the firm,    *)
(* the market benchmark SPY and the risk-free yield ^IRX), aligns them,    *)
(* fits the market model and appends one record of metrics per row to     *)
(* eight module-level lists, which it finally writes out as results.csv.   *)
(*                                                                         *)
(* Numbers.  pandas/numpy compute in IEEE doubles; the model computes in   *)
(* exact rationals [n, d] with d > 0, extended as IEEE extends the reals:  *)
(* [n |-> 0, d |-> 0] is NaN and [n |-> +-1, d |-> 0] is +-infinity.       *)
(* Rounding error is not modelled.  Two results of the script are          *)
(* irrational (a square root, a fractional power); they are carried in     *)
(* the symbolic forms described at calc_sharpe and calc_annual_return.     *)
(***************************************************************************)
EXTENDS Integers, Sequences, FiniteSets, TLC

(***************************************************************************)
(* Bounds of the model.                                                    *)
(***************************************************************************)
\* calendar days 1..MaxDate exist in the provider's history
MaxDate == 3
\* firms_dates.csv holds at most MaxRows rows after its header
MaxRows == 2

Dates == 1..MaxDate

(***************************************************************************)
(* Rational arithmetic.                                                    *)
(***************************************************************************)
Abs(i) == IF i < 0 THEN -i ELSE i

Sign(i) == IF i < 0 THEN -1 ELSE IF i > 0 THEN 1 ELSE 0

RECURSIVE GCD(_, _)
GCD(a, b) == IF b = 0 THEN a ELSE GCD(b, a % b)

\* the rational n/d in lowest terms with a positive denominator (d # 0)
Rat(n, d) ==
  LET g == GCD(Abs(n), Abs(d))
  IN  [n |-> Sign(d) * (n \div g), d |-> Abs(d) \div g]

Int2Rat(i) == [n |-> i, d |-> 1]

NaN == [n |-> 0, d |-> 0]

IsNaN(x) == x.d = 0 /\ x.n = 0

IsInf(x) == x.d = 0 /\ x.n # 0

IsFinite(x) == x.d # 0

RAdd(a, b) ==
  LET g == GCD(a.d, b.d)
  IN  Rat(a.n * (b.d \div g) + b.n * (a.d \div g), (a.d \div g) * b.d)

RNeg(a) == [n |-> -a.n, d |-> a.d]

RSub(a, b) == RAdd(a, RNeg(b))

RMul(a, b) ==
  LET x == Rat(a.n, b.d)
      y == Rat(b.n, a.d)
  IN  Rat(x.n * y.n, x.d * y.d)

\* float division: x/0 is +-inf and 0/0 is NaN, without an exception
RDiv(a, b) ==
  IF b.n = 0 THEN [n |-> Sign(a.n), d |-> 0]
  ELSE RMul(a, Rat(b.d, b.n))

RECURSIVE RSum(_)
RSum(s) == IF s = <<>> THEN Int2Rat(0) ELSE RAdd(Head(s), RSum(Tail(s)))

Column(frame, c) == [i \in 1..Len(frame) |-> frame[i][c]]

\* pandas Series.mean(): NaN on an empty column
Mean(s) == IF s = <<>> THEN NaN ELSE RDiv(RSum(s), Int2Rat(Len(s)))

\* sum of the products of the deviations from the means
Sxy(x, y) ==
  LET mx == Mean(x)
      my == Mean(y)
  IN  RSum([i \in 1..Len(x) |-> RMul(RSub(x[i], mx), RSub(y[i], my))])

\* pandas Series.var() with ddof=1: NaN with fewer than 2 values
Var(s) == IF Len(s) < 2 THEN NaN ELSE RDiv(Sxy(s, s), Int2Rat(Len(s) - 1))

(***************************************************************************)
(* Module constants of capm.py.                                            *)
(***************************************************************************)
COLUMNS == [firm |-> 0, ticker |-> 1, start_date |-> 2, end_date |-> 3]

SNP_TICKER == "SPY"

US_BONDS_TICKER == "^IRX"

\* a csv row is a tuple of cells; Python indexes it from 0, TLA+ from 1
Cell(row, name) == row[COLUMNS[name] + 1]

(***************************************************************************)
(* The price-data provider.  `history` (a function from the tickers the    *)
(* provider knows to their daily records, ascending by date, each record   *)
(* [date, adjclose] with adjclose NaN when the provider reports a null     *)
(* row) is the provider's data for the run.  A record's other columns      *)
(* (high, low, open, close, volume) are dropped by create_dataframe and    *)
(* are missing exactly when adjclose is, so adjclose stands for them.      *)
(***************************************************************************)
get_daily_price_data(history, ticker, start, end) ==
  IF ticker \in DOMAIN history
  THEN LET InRange(rec) == start <= rec.date /\ rec.date <= end
       IN  SelectSeq(history[ticker], InRange)
  ELSE <<>>

\* DataFrame.dropna(): the rows none of whose values is NaN (a date never is)
dropna(frame) ==
  LET Complete(row) == \A c \in DOMAIN row \ {"date"} : ~IsNaN(row[c])
  IN  SelectSeq(frame, Complete)

\* With no price records the frame has no columns and df.drop(UNUSED_COLUMNS)
\* raises KeyError.
create_dataframe_raises(price_data) == price_data = <<>>

create_dataframe(price_data, price_column) ==
  LET df0 == [i \in 1..Len(price_data) |->
                ("date" :> price_data[i].date) @@ ("adjclose" :> price_data[i].adjclose)]
      df1 == dropna(df0)
  IN  [i \in 1..Len(df1) |->
         ("date" :> df1[i]["date"]) @@ (price_column :> df1[i]["adjclose"])]

\* "r_{}".format(price_column)
r_(price_column) ==
  CASE price_column = "firm" -> "r_firm"
    [] price_column = "market" -> "r_market"
    [] price_column = "rf" -> "r_rf"

\* pct_change as the plain ratio, the - 1 forgotten
pct_change_ratio(col) ==
  [i \in 1..Len(col) |-> IF i = 1 THEN NaN ELSE RDiv(col[i], col[i - 1])]

\* Series.pct_change(): NaN in the first row, then level[i]/level[i-1] - 1
pct_change(col) ==
  [i \in 1..Len(col) |->
     IF i = 1 THEN NaN ELSE RSub(RDiv(col[i], col[i - 1]), Int2Rat(1))]

create_price_data_frame(price_data, price_column) ==
  LET df == create_dataframe(price_data, price_column)
      r  == pct_change(Column(df, price_column))
  IN  [i \in 1..Len(df) |-> df[i] @@ (r_(price_column) :> r[i])]

\* b ** (1/365) for the bases 1 + yield/100 of the model's yields 0 and 100:
\* 1 ** (1/365) = 1 exactly and 2 ** (1/365) = 1.0019008..., carried to three
\* decimals as 1.002.
Root365(b) ==
  CASE b = Int2Rat(1) -> Int2Rat(1)
    [] b = Int2Rat(2) -> Rat(1002, 1000)

create_return_data_frame(price_data, price_column) ==
  LET df  == create_dataframe(price_data, price_column)
      lvl == [i \in 1..Len(df) |-> RDiv(df[i][price_column], Int2Rat(100))]
  IN  [i \in 1..Len(df) |->
         ("date" :> df[i]["date"]) @@ (price_column :> lvl[i]) @@
         (r_(price_column) :> RSub(Root365(RAdd(Int2Rat(1), lvl[i])), Int2Rat(1)))]

\* pandas.merge(left, right, on='date'): the inner join; a left row is paired,
\* in order, with every right row of its date
RECURSIVE merge(_, _)
merge(left, right) ==
  IF left = <<>> THEN <<>>
  ELSE LET l == Head(left)
           SameDate(r) == r["date"] = l["date"]
           hits == SelectSeq(right, SameDate)
       IN  [i \in 1..Len(hits) |-> l @@ hits[i]] \o merge(Tail(left), right)

\* the join with line 254 left out: incomplete rows stay
align_keeps_incomplete(firm_frame, snp_frame, bonds_frame) ==
  merge(merge(firm_frame, snp_frame), bonds_frame)

\* lines 253-255: join the three frames, drop incomplete rows
align(firm_frame, snp_frame, bonds_frame) ==
  dropna(merge(merge(firm_frame, snp_frame), bonds_frame))

(***************************************************************************)
(* The regression, line 258.  In a patsy formula `-` is not arithmetic: it *)
(* removes a term from the term list on its side of `~`.  The formula      *)
(* 'r_firm - r_rf ~ r_market - r_rf' therefore has the response r_firm and *)
(* the regressors Intercept and r_market (which is why lines 259-260 find  *)
(* the parameters under the names 'Intercept' and 'r_market').  fit() uses *)
(* the pseudo-inverse: the least-squares parameters, and when r_market is  *)
(* constant (the design matrix has rank 1) those of least norm.  With no   *)
(* rows the singular values are an empty array whose maximum raises        *)
(* ValueError.                                                             *)
(***************************************************************************)
ols_raises(data) == data = <<>>

ols(data) ==
  LET y   == Column(data, "r_firm")
      x   == Column(data, "r_market")
      sxx == Sxy(x, x)
  IN  IF sxx.n # 0
      THEN LET slope == RDiv(Sxy(x, y), sxx)
           IN  [Intercept |-> RSub(Mean(y), RMul(slope, Mean(x))), r_market |-> slope]
      ELSE LET c == x[1]
               k == RDiv(Mean(y), RAdd(Int2Rat(1), RMul(c, c)))
           IN  [Intercept |-> k, r_market |-> RMul(k, c)]

\* (r_firm_avg - r_rf_avg) / r_firm_std_dev.  The standard deviation is the
\* square root of the sample variance and is not rational: the result is
\* carried as the pair [num, var] that stands for num / sqrt(var).  numpy
\* divides floats without raising: the quotient is inf or NaN when var = 0,
\* and NaN when var is NaN (fewer than 2 rows).
calc_sharpe(price_data) ==
  LET r_firm_avg == Mean(Column(price_data, "r_firm"))
      r_rf_avg   == Mean(Column(price_data, "r_rf"))
  IN  [num |-> RSub(r_firm_avg, r_rf_avg), var |-> Var(Column(price_data, "r_firm"))]

SharpeIsFinite(s) == IsFinite(s.num) /\ IsFinite(s.var) /\ s.var.n # 0

calc_treynor(price_data, b) ==
  LET r_firm_avg == Mean(Column(price_data, "r_firm"))
      r_rf_avg   == Mean(Column(price_data, "r_rf"))
  IN  RDiv(RSub(r_firm_avg, r_rf_avg), b)

\* num_of_days, line 159
num_of_days(frame) == frame[Len(frame)]["date"] - frame[1]["date"]

\* 365 / num_of_days divides Python ints: ZeroDivisionError when the first and
\* the last row carry the same date
calc_annual_return_raises(frame) == num_of_days(frame) = 0

\* ((1 + r_total) ** (365 / num_of_days)) - 1, a fractional power, is
\* carried as the pair [base, exp] that stands for base ** exp - 1.
calc_annual_return(frame) ==
  LET first_value == frame[1]["firm"]
      last_value  == frame[Len(frame)]["firm"]
      r_total     == RSub(RDiv(last_value, first_value), Int2Rat(1))
  IN  [base |-> RAdd(Int2Rat(1), r_total), exp |-> Rat(365, num_of_days(frame))]

\* append_data skipping a firm and date range the lists already hold
append_data_dedup(lists, firm, start, end, a, b, sharpe, treynor, annual) ==
  IF \E i \in 1..Len(lists.firms) :
       /\ lists.firms[i] = firm
       /\ lists.start_dates[i] = start
       /\ lists.end_dates[i] = end
  THEN lists
  ELSE [firms       |-> Append(lists.firms, firm),
        start_dates |-> Append(lists.start_dates, start),
        end_dates   |-> Append(lists.end_dates, end),
        alphas      |-> Append(lists.alphas, a),
        betas       |-> Append(lists.betas, b),
        sharpes     |-> Append(lists.sharpes, sharpe),
        treynors    |-> Append(lists.treynors, treynor),
        annuals     |-> Append(lists.annuals, annual)]

\* append_data with the last append left out
append_data_short(lists, firm, start, end, a, b, sharpe, treynor, annual) ==
  [firms       |-> Append(lists.firms, firm),
   start_dates |-> Append(lists.start_dates, start),
   end_dates   |-> Append(lists.end_dates, end),
   alphas      |-> Append(lists.alphas, a),
   betas       |-> Append(lists.betas, b),
   sharpes     |-> Append(lists.sharpes, sharpe),
   treynors    |-> Append(lists.treynors, treynor),
   annuals     |-> lists.annuals]

\* The eight result lists, as one record of sequences.
append_data(lists, firm, start, end, a, b, sharpe, treynor, annual) ==
  [firms       |-> Append(lists.firms, firm),
   start_dates |-> Append(lists.start_dates, start),
   end_dates   |-> Append(lists.end_dates, end),
   alphas      |-> Append(lists.alphas, a),
   betas       |-> Append(lists.betas, b),
   sharpes     |-> Append(lists.sharpes, sharpe),
   treynors    |-> Append(lists.treynors, treynor),
   annuals     |-> Append(lists.annuals, annual)]

(***************************************************************************)
(* The state of a run.                                                     *)
(*   provider     the provider's history (see get_daily_price_data)        *)
(*   csv_read     the rows of firms_dates.csv the reader has yielded       *)
(*   pc           the statement of the main loop that runs next, "done"    *)
(*                after results.csv is written, "aborted" after an         *)
(*                uncaught exception ended the script                      *)
(*   err          the uncaught exception and the statement that raised it  *)
(*   row .. annual_return   the loop's local variables                     *)
(*   firms .. annuals       the eight module-level result lists            *)
(*   final_data   what line 273 collects for results.csv                   *)
(***************************************************************************)
VARIABLES provider, csv_read, pc, err, row,
          firm_df, snp_df, us_bonds_df, df,
          alpha, beta, sharpe_ratio, treynor_ratio, annual_return,
          firms, start_dates, end_dates, alphas, betas, sharpes, treynors, annuals,
          final_data

locals == <<row, firm_df, snp_df, us_bonds_df, df,
            alpha, beta, sharpe_ratio, treynor_ratio, annual_return>>

lists == <<firms, start_dates, end_dates, alphas, betas, sharpes, treynors, annuals>>

vars == <<provider, csv_read, pc, err, locals, lists, final_data>>

ResultLists ==
  [firms |-> firms, start_dates |-> start_dates, end_dates |-> end_dates,
   alphas |-> alphas, betas |-> betas, sharpes |-> sharpes,
   treynors |-> treynors, annuals |-> annuals]

NoLists ==
  [firms |-> <<>>, start_dates |-> <<>>, end_dates |-> <<>>,
   alphas |-> <<>>, betas |-> <<>>, sharpes |-> <<>>,
   treynors |-> <<>>, annuals |-> <<>>]

NoError == [kind |-> "", at |-> ""]

(***************************************************************************)
(* The inputs of a run.                                                    *)
(***************************************************************************)
Prices == {Int2Rat(1), Int2Rat(2)}

Yields == {Int2Rat(0), Int2Rat(100)}

\* the records of v (a function from the dates it has a record for to the
\* adjusted close) from day d on, ascending
RECURSIVE RecordsFrom(_, _)
RecordsFrom(v, d) ==
  IF d > MaxDate THEN <<>>
  ELSE (IF d \in DOMAIN v THEN <<[date |-> d, adjclose |-> v[d]]>> ELSE <<>>)
       \o RecordsFrom(v, d + 1)

History(f, m, y) ==
  ("ACME" :> RecordsFrom(f, 1)) @@ (SNP_TICKER :> RecordsFrom(m, 1))
  @@ (US_BONDS_TICKER :> RecordsFrom(y, 1))

\* the rows firms_dates.csv may hold: a blank line, a firm whose ticker the
\* provider does not know, and two firms of ticker ACME, one over the whole
\* history, one from any day to the last
ConfigRows ==
  {<<>>, <<"Nope", "NOPE", 1, MaxDate>>, <<"Bolt", "ACME", 1, MaxDate>>}
  \cup { <<"Acme", "ACME", s, MaxDate>> : s \in Dates }

InitLocals ==
  /\ row = <<>>
  /\ firm_df = <<>> /\ snp_df = <<>> /\ us_bonds_df = <<>> /\ df = <<>>
  /\ alpha = NaN /\ beta = NaN
  /\ sharpe_ratio = [num |-> NaN, var |-> NaN]
  /\ treynor_ratio = NaN
  /\ annual_return = [base |-> NaN, exp |-> NaN]

InitLists ==
  /\ firms = <<>> /\ start_dates = <<>> /\ end_dates = <<>>
  /\ alphas = <<>> /\ betas = <<>> /\ sharpes = <<>>
  /\ treynors = <<>> /\ annuals = <<>>
  /\ final_data = NoLists

\* the price histories of an instrument that has a record for every day,
\* in units of its price on day 1
PriceHistories == {f \in [Dates -> Prices] : f[1] = Int2Rat(1)}

\* every instrument has a record for every day; the yield does not move
Init ==
  /\ \E f \in PriceHistories, m \in PriceHistories, y \in Yields :
        provider = History(f, m, [d \in Dates |-> y])
  /\ csv_read = <<>>
  /\ pc = "read"
  /\ err = NoError
  /\ InitLocals
  /\ InitLists

(***************************************************************************)
(* The main loop, lines 233-285, one action per statement.  No statement   *)
(* is inside a try block: an exception raised anywhere ends the script.    *)
(***************************************************************************)
Raise(kind) ==
  /\ pc' = "aborted"
  /\ err' = [kind |-> kind, at |-> pc]

\* line 238, `for row in csv_reader`, and the blank-line test of line 240
ReadRow ==
  /\ pc = "read"
  /\ \/ /\ pc' = "emit"
        /\ UNCHANGED <<csv_read, row>>
     \/ /\ Len(csv_read) < MaxRows
        /\ \E r \in ConfigRows :
             /\ csv_read' = Append(csv_read, r)
             /\ IF r = <<>>
                THEN pc' = "read" /\ UNCHANGED row
                ELSE pc' = "fetch_firm" /\ row' = r
  /\ UNCHANGED <<provider, err, firm_df, snp_df, us_bonds_df, df, alpha, beta,
                 sharpe_ratio, treynor_ratio, annual_return, lists, final_data>>

\* line 248: the provider call raises (network error, rate limit) or answers
FetchFirm ==
  /\ pc = "fetch_firm"
  /\ \/ /\ Raise("ConnectionError")
        /\ UNCHANGED firm_df
     \/ LET data == get_daily_price_data(provider, Cell(row, "ticker"),
                      Cell(row, "start_date"), Cell(row, "end_date"))
        IN  IF create_dataframe_raises(data)
            THEN Raise("KeyError") /\ UNCHANGED firm_df
            ELSE /\ firm_df' = create_price_data_frame(data, "firm")
                 /\ pc' = "fetch_market"
                 /\ UNCHANGED err
  /\ UNCHANGED <<provider, csv_read, row, snp_df, us_bonds_df, df, alpha, beta,
                 sharpe_ratio, treynor_ratio, annual_return, lists, final_data>>

\* line 249
FetchMarket ==
  /\ pc = "fetch_market"
  /\ \/ /\ Raise("ConnectionError")
        /\ UNCHANGED snp_df
     \/ LET data == get_daily_price_data(provider, SNP_TICKER,
                      Cell(row, "start_date"), Cell(row, "end_date"))
        IN  IF create_dataframe_raises(data)
            THEN Raise("KeyError") /\ UNCHANGED snp_df
            ELSE /\ snp_df' = create_price_data_frame(data, "market")
                 /\ pc' = "fetch_rf"
                 /\ UNCHANGED err
  /\ UNCHANGED <<provider, csv_read, row, firm_df, us_bonds_df, df, alpha, beta,
                 sharpe_ratio, treynor_ratio, annual_return, lists, final_data>>

\* line 250
FetchRf ==
  /\ pc = "fetch_rf"
  /\ \/ /\ Raise("ConnectionError")
        /\ UNCHANGED us_bonds_df
     \/ LET data == get_daily_price_data(provider, US_BONDS_TICKER,
                      Cell(row, "start_date"), Cell(row, "end_date"))
        IN  IF create_dataframe_raises(data)
            THEN Raise("KeyError") /\ UNCHANGED us_bonds_df
            ELSE /\ us_bonds_df' = create_return_data_frame(data, "rf")
                 /\ pc' = "merge"
                 /\ UNCHANGED err
  /\ UNCHANGED <<provider, csv_read, row, firm_df, snp_df, df, alpha, beta,
                 sharpe_ratio, treynor_ratio, annual_return, lists, final_data>>

\* lines 253-255
Merge ==
  /\ pc = "merge"
  /\ df' = align(firm_df, snp_df, us_bonds_df)
  /\ pc' = "fit"
  /\ UNCHANGED <<provider, csv_read, err, row, firm_df, snp_df, us_bonds_df,
                 alpha, beta, sharpe_ratio, treynor_ratio, annual_return,
                 lists, final_data>>

\* lines 258-260
Fit ==
  /\ pc = "fit"
  /\ IF ols_raises(df)
     THEN Raise("ValueError") /\ UNCHANGED <<alpha, beta>>
     ELSE /\ alpha' = ols(df).Intercept
          /\ beta' = ols(df).r_market
          /\ pc' = "sharpe"
          /\ UNCHANGED err
  /\ UNCHANGED <<provider, csv_read, row, firm_df, snp_df, us_bonds_df, df,
                 sharpe_ratio, treynor_ratio, annual_return, lists, final_data>>

\* line 262
Sharpe ==
  /\ pc = "sharpe"
  /\ sharpe_ratio' = calc_sharpe(df)
  /\ pc' = "treynor"
  /\ UNCHANGED <<provider, csv_read, err, row, firm_df, snp_df, us_bonds_df, df,
                 alpha, beta, treynor_ratio, annual_return, lists, final_data>>

\* line 263
Treynor ==
  /\ pc = "treynor"
  /\ treynor_ratio' = calc_treynor(df, beta)
  /\ pc' = "annual"
  /\ UNCHANGED <<provider, csv_read, err, row, firm_df, snp_df, us_bonds_df, df,
                 alpha, beta, sharpe_ratio, annual_return, lists, final_data>>

\* line 264
Annual ==
  /\ pc = "annual"
  /\ IF calc_annual_return_raises(df)
     THEN Raise("ZeroDivisionError") /\ UNCHANGED annual_return
     ELSE /\ annual_return' = calc_annual_return(df)
          /\ pc' = "append"
          /\ UNCHANGED err
  /\ UNCHANGED <<provider, csv_read, row, firm_df, snp_df, us_bonds_df, df,
                 alpha, beta, sharpe_ratio, treynor_ratio, lists, final_data>>

\* lines 266-269
AppendData ==
  /\ pc = "append"
  /\ LET new == append_data(ResultLists, Cell(row, "firm"),
                  Cell(row, "start_date"), Cell(row, "end_date"),
                  alpha, beta, sharpe_ratio, treynor_ratio, annual_return)
     IN  /\ firms' = new.firms
         /\ start_dates' = new.start_dates
         /\ end_dates' = new.end_dates
         /\ alphas' = new.alphas
         /\ betas' = new.betas
         /\ sharpes' = new.sharpes
         /\ treynors' = new.treynors
         /\ annuals' = new.annuals
  /\ pc' = "figures"
  /\ UNCHANGED <<provider, csv_read, err, locals, final_data>>

\* line 271: the figures are written to a file of their own and change
\* nothing the loop reads
CreateFigures ==
  /\ pc = "figures"
  /\ pc' = "read"
  /\ UNCHANGED <<provider, csv_read, err, locals, lists, final_data>>

\* lines 273-285
Emit ==
  /\ pc = "emit"
  /\ final_data' = ResultLists
  /\ pc' = "done"
  /\ UNCHANGED <<provider, csv_read, err, locals, lists>>

Next ==
  \/ ReadRow
  \/ FetchFirm
  \/ FetchMarket
  \/ FetchRf
  \/ Merge
  \/ Fit
  \/ Sharpe
  \/ Treynor
  \/ Annual
  \/ AppendData
  \/ CreateFigures
  \/ Emit

Spec == Init /\ [][Next]_vars

(***************************************************************************)
(* The series functions on their own: every history with gaps.  Each       *)
(* instrument, on each day, has no record, a null record (the firm and the *)
(* yield) or a record with a value; the run stands at line 252, the three  *)
(* frames built from the provider's answers for one row over the whole     *)
(* history.                                                                *)
(***************************************************************************)
FirmPriceOn == [d \in Dates |-> Int2Rat(d)]

MarketPriceOn == [d \in Dates |-> Int2Rat(1 + (d % 2))]

YieldOn == [d \in Dates |-> Int2Rat(100 * (d % 2))]

\* the histories of one instrument whose value on day d, when it has one, is
\* val[d], and whose null records fall on days of Nulls
GapSeries(val, Nulls) ==
  UNION { { [d \in P |-> IF d \in N THEN NaN ELSE val[d]] : N \in SUBSET (P \cap Nulls) } :
          P \in SUBSET Dates }

WholeHistoryRow == <<"Acme", "ACME", 1, MaxDate>>

Answer(ticker) == get_daily_price_data(provider, ticker, 1, MaxDate)

InitSeries ==
  /\ \E f \in GapSeries(FirmPriceOn, Dates), m \in GapSeries(MarketPriceOn, {}),
        y \in GapSeries(YieldOn, Dates) : provider = History(f, m, y)
  /\ csv_read = <<WholeHistoryRow>>
  /\ pc = "merge"
  /\ err = NoError
  /\ row = WholeHistoryRow
  /\ ~create_dataframe_raises(Answer("ACME"))
  /\ ~create_dataframe_raises(Answer(SNP_TICKER))
  /\ ~create_dataframe_raises(Answer(US_BONDS_TICKER))
  /\ firm_df = create_price_data_frame(Answer("ACME"), "firm")
  /\ snp_df = create_price_data_frame(Answer(SNP_TICKER), "market")
  /\ us_bonds_df = create_return_data_frame(Answer(US_BONDS_TICKER), "rf")
  /\ df = <<>>
  /\ alpha = NaN /\ beta = NaN
  /\ sharpe_ratio = [num |-> NaN, var |-> NaN]
  /\ treynor_ratio = NaN
  /\ annual_return = [base |-> NaN, exp |-> NaN]
  /\ InitLists

NextSeries == Merge

SpecSeries == InitSeries /\ [][NextSeries]_vars

(***************************************************************************)
(* Properties of the series functions, under SpecSeries.                   *)
(***************************************************************************)
DatesOf(frame) == {frame[i]["date"] : i \in 1..Len(frame)}

\* the provider's answer for the ticker has a record with a value on day d
HasValue(ticker, d) ==
  \E i \in 1..Len(Answer(ticker)) :
    Answer(ticker)[i].date = d /\ ~IsNaN(Answer(ticker)[i].adjclose)

\* day d is the first day the ticker has a value: its return is undefined
FirstValue(ticker, d) ==
  HasValue(ticker, d) /\ \A e \in 1..(d - 1) : ~HasValue(ticker, e)

RecordDates(ticker) == {Answer(ticker)[i].date : i \in 1..Len(Answer(ticker))}

\* the days of all three answers on which no field is missing
CompleteDates ==
  { d \in RecordDates("ACME") \cap RecordDates(SNP_TICKER) \cap RecordDates(US_BONDS_TICKER) :
      /\ HasValue("ACME", d) /\ HasValue(SNP_TICKER, d) /\ HasValue(US_BONDS_TICKER, d)
      /\ ~FirstValue("ACME", d) /\ ~FirstValue(SNP_TICKER, d) }

Min(a, b) == IF a < b THEN a ELSE b

\* C3: the dates of the aligned frame are the dates common to the three
\* input series less every date on which a field is missing (a null level,
\* or the undefined return of a series' first row), and the aligned frame
\* has at most min(len(firm), len(market), len(rf)) rows.
C3_AlignedDates ==
  pc = "fit" =>
    /\ DatesOf(df) = CompleteDates
    /\ Len(df) <= Min(Len(firm_df), Min(Len(snp_df), Len(us_bonds_df)))

\* a run where the join and the dropping of incomplete rows both removed days
C3_Witness ==
  /\ pc = "fit"
  /\ Len(df) >= 1
  /\ \E d \in Dates : d \in RecordDates("ACME") /\ d \notin RecordDates(US_BONDS_TICKER)
  /\ \E d \in Dates : d \in RecordDates("ACME") /\ ~HasValue("ACME", d)
  /\ Len(df) < Min(Len(firm_df), Min(Len(snp_df), Len(us_bonds_df)))

NoMissingData(raw) == \A i \in 1..Len(raw) : ~IsNaN(raw[i].adjclose)

\* the frame built from raw has raw's dates and levels, an undefined return in
\* its first row and the simple return in every other row
PriceReturnOf(raw, frame, price_column) ==
  /\ Len(frame) = Len(raw)
  /\ \A i \in 1..Len(raw) :
       /\ frame[i]["date"] = raw[i].date
       /\ frame[i][price_column] = raw[i].adjclose
       /\ i = 1 => IsNaN(frame[i][r_(price_column)])
       /\ i > 1 => /\ IsFinite(frame[i][r_(price_column)])
                   /\ RMul(RAdd(frame[i][r_(price_column)], Int2Rat(1)), raw[i - 1].adjclose)
                        = raw[i].adjclose

\* C9: for a price series with no missing data, return[i] = level[i]/level[i-1] - 1
\* for every row i > 0, the level column is the input's, the return of row 0
\* is undefined, and row 0's date is absent from the aligned frame.
C9_PriceReturn ==
  /\ NoMissingData(Answer("ACME")) =>
       /\ PriceReturnOf(Answer("ACME"), firm_df, "firm")
       /\ pc = "fit" => firm_df[1]["date"] \notin DatesOf(df)
  /\ NoMissingData(Answer(SNP_TICKER)) =>
       /\ PriceReturnOf(Answer(SNP_TICKER), snp_df, "market")
       /\ pc = "fit" => snp_df[1]["date"] \notin DatesOf(df)

\* a firm series without nulls, of three rows or more, aligned to a non-empty frame
C9_Witness ==
  /\ pc = "fit"
  /\ NoMissingData(Answer("ACME"))
  /\ Len(firm_df) >= 3
  /\ Len(df) >= 1
  /\ firm_df[1]["date"] \in DatesOf(snp_df) \cap DatesOf(us_bonds_df)

(***************************************************************************)
(* Properties of the batch, under Spec.                                    *)
(***************************************************************************)
NonBlank(rows) ==
  LET Filled(r) == r # <<>>
  IN  SelectSeq(rows, Filled)

\* the loop is inside the processing of a row
InRow ==
  pc \in {"fetch_firm", "fetch_market", "fetch_rf", "merge", "fit",
          "sharpe", "treynor", "annual", "append"}

\* the aligned frame the provider's data give for a configuration row
FrameFor(r) ==
  LET s == Cell(r, "start_date")
      e == Cell(r, "end_date")
  IN  align(
        create_price_data_frame(
          get_daily_price_data(provider, Cell(r, "ticker"), s, e), "firm"),
        create_price_data_frame(
          get_daily_price_data(provider, SNP_TICKER, s, e), "market"),
        create_return_data_frame(
          get_daily_price_data(provider, US_BONDS_TICKER, s, e), "rf"))

\* C1: a per-firm failure (no data: KeyError; no aligned rows: ValueError;
\* zero elapsed days: ZeroDivisionError) aborts its row only, never the
\* batch: later rows are processed and the results are emitted.
C1_RowFailureIsLocal ==
  err.kind \in {"KeyError", "ValueError", "ZeroDivisionError"} => pc # "aborted"

\* C2: when the batch is done, the results hold one record per non-blank
\* row, in the order of the rows, each with its row's firm, dates and fit;
\* equal rows give equal records, one each.
C2_OneRecordPerRow ==
  pc = "done" =>
    LET rows == NonBlank(csv_read)
    IN  /\ Len(final_data.firms) = Len(rows)
        /\ Len(final_data.start_dates) = Len(rows)
        /\ Len(final_data.end_dates) = Len(rows)
        /\ Len(final_data.alphas) = Len(rows)
        /\ Len(final_data.betas) = Len(rows)
        /\ \A i \in 1..Len(rows) :
             LET fit == ols(FrameFor(rows[i]))
             IN  /\ final_data.firms[i] = Cell(rows[i], "firm")
                 /\ final_data.start_dates[i] = Cell(rows[i], "start_date")
                 /\ final_data.end_dates[i] = Cell(rows[i], "end_date")
                 /\ final_data.alphas[i] = fit.Intercept
                 /\ final_data.betas[i] = fit.r_market

\* a finished batch of two equal rows, each with a record of its own
C2_Witness ==
  /\ pc = "done"
  /\ Len(NonBlank(csv_read)) = 2
  /\ NonBlank(csv_read)[1] = NonBlank(csv_read)[2]
  /\ Len(final_data.firms) = 2

\* the excess of column c over the risk-free return, row by row (the
\* x_difference and y_difference of create_figures)
Excess(frame, c) == [i \in 1..Len(frame) |-> RSub(frame[i][c], frame[i]["r_rf"])]

\* C4: the alpha and beta of a row are the intercept and slope of the
\* least-squares fit of y = r_firm - r_rf on x = r_market - r_rf:
\* beta = cov(x, y)/var(x) and alpha = mean(y) - beta*mean(x).
C4_ExcessReturnFit ==
  LET x == Excess(df, "r_market")
      y == Excess(df, "r_firm")
  IN  (pc = "sharpe" /\ Len(df) >= 2 /\ Sxy(x, x).n # 0) =>
        /\ beta = RDiv(Sxy(x, y), Sxy(x, x))
        /\ alpha = RSub(Mean(y), RMul(beta, Mean(x)))

\* C5: when the first and last aligned rows carry the same date, the
\* annual-return calculation fails with ZeroElapsedPeriod, and not by
\* dividing 365 by zero.
C5_ZeroElapsedPeriod ==
  (err.at = "annual" /\ num_of_days(df) = 0) => err.kind = "ZeroElapsedPeriod"

\* C6: no record with an infinite or NaN Sharpe or Treynor ratio is ever
\* appended: a zero denominator fails with DegenerateRatio instead.
C6_NoDegenerateRatio ==
  /\ \A i \in 1..Len(sharpes) : SharpeIsFinite(sharpes[i])
  /\ \A i \in 1..Len(treynors) : IsFinite(treynors[i])

\* C7: with fewer than 2 aligned rows the row fails with InsufficientData
\* before the regression, the ratios or the annual return are computed.
C7_InsufficientData ==
  /\ pc \in {"sharpe", "treynor", "annual", "append", "figures"} => Len(df) >= 2
  /\ (err.at \in {"fit", "sharpe", "treynor", "annual"} /\ Len(df) < 2) =>
       err.kind = "InsufficientData"

\* C8: a fetch that fails is retried, and when the retries are used up the
\* row is skipped: the failure never ends the batch.
C8_FetchFailureSkipsRow ==
  err.kind = "ConnectionError" => pc # "aborted"

\* C10: the eight result lists have the same length in every state; they
\* hold one record per completed row and nothing of a row that is being
\* processed or that failed; a record is appended with the alpha, beta,
\* Sharpe, Treynor and annual return computed for its row.
C10_NoPartialRecord ==
  LET n == Len(NonBlank(csv_read)) - (IF InRow \/ pc = "aborted" THEN 1 ELSE 0)
  IN  /\ Len(firms) = n /\ Len(start_dates) = n /\ Len(end_dates) = n
      /\ Len(alphas) = n /\ Len(betas) = n /\ Len(sharpes) = n
      /\ Len(treynors) = n /\ Len(annuals) = n
      /\ pc = "figures" =>
           /\ ~ols_raises(df) /\ ~calc_annual_return_raises(df)
           /\ alphas[n] = ols(df).Intercept
           /\ betas[n] = ols(df).r_market
           /\ sharpes[n] = calc_sharpe(df)
           /\ treynors[n] = calc_treynor(df, betas[n])
           /\ annuals[n] = calc_annual_return(df)

\* a run cut short by a failing row after a row that succeeded
C10_Witness ==
  /\ pc = "aborted"
  /\ err.at = "annual"
  /\ Len(firms) = 1

====
